---- MODULE Spec2Model ----
(***************************************************************************)
(* Model of the log rotator of src/ipmgr_log_rotator.c: the inotify        *)
(* observer thread (log_rotate_thread_fn, handle_bak_file, file_rotate)    *)
(* and the zipper thread (zip_log_file_thread_fn,                          *)
(* compress_all_log_files_with_name, rename_all_log0_to_log1_log_file),    *)
(* the files of the watch directory and the semaphores, spinlock and       *)
(* atomic flag the two threads share.                                      *)
(*                                                                         *)
(* A file name is the sequence of its dot-separated components, so         *)
(* "ipmgr.171.bak" is <<"ipmgr", "171", "bak">>.  The content of a         *)
(* sentinel is the one-element sequence of its arrival number, or the      *)
(* empty sequence for a sentinel of size 0, and the content of a           *)
(* generation file is the sequence of the sentinel numbers whose bytes it  *)
(* holds.                                                                  *)
(***************************************************************************)
EXTENDS FiniteSets, Integers, Sequences, TLC

\* ------------------------------------------------------------------------
\* Configuration, scaled down from the values of the source
\* (DEFAULT_MAX_FILES is 5 and DEFAULT_NUM_TARGET_FILES is 4 there).
DEFAULT_MAX_FILES == 2

DEFAULT_NUM_TARGET_FILES == 2

\* Number of files the producers create in one behaviour.
MaxSentinels == 5

\* Number of inotify events that may wait unread.
MaxQueue == 1

\* Largest value of the wall clock (seconds) read by the zipper.
MaxTime == 2

\* Number of files with a name other than a stamped sentinel's created in one
\* behaviour.
MaxOther == 1

\* Number of files created in one behaviour of the directory in which files
\* with other names appear.
MaxNamed == 3

\* Number of sentinels created in one behaviour that starts on a directory
\* already holding generation files.
MaxRotated == 2

\* Largest number of sentinels created when the stamps are drawn from Stamps
MaxStamped == 3

\* Largest number of sentinels created when a stamp may be a family name
MaxCross == 3

\* Number of sentinels created in one behaviour in which a sentinel may hold
\* no byte
MaxEmpty == 4

all_target_files == <<"ipstrc", "pdtrc", "ipmgr", "inttrc">>

target_files == SubSeq(all_target_files, 1, DEFAULT_NUM_TARGET_FILES)

CTRL_F_DEL_OBSOLETE_TAR_FILES == TRUE

CTRL_F_DELETE_OBSOLETE_LOG_FILES == TRUE

Families == 1..DEFAULT_NUM_TARGET_FILES

Gens == 0..DEFAULT_MAX_FILES

Bases == {target_files[j] : j \in Families}

\* A file that does not exist.
NoFile == <<0>>

\* An archive name that was never set (archives[i][0] == '\0').
NoArchive == <<"", 0>>

\* a chain without any generation file
NoChain == [i \in Gens |-> NoFile]

\* The names the producers give the k-th sentinel: <family>.<stamp>.bak, the
\* stamp telling successive sentinels apart
SentinelNames(k) == {<<target_files[j], ToString(k), "bak">> : j \in Families}

VARIABLES
    names,              \* names[k]: name of the k-th file created in the directory
    empty,              \* numbers of the created files that hold no byte (st_size 0)
    onDisk,             \* numbers of the created files that still exist under their name
    nread,              \* number of created files with no event left to read: the event
                        \* was read, or the file was there before the watch
    opc,                \* observer thread: position in its code
    ev,                 \* observer: number of the event being handled (0: none)
    findex,             \* observer: index j of the matched target file
    ri,                 \* file_rotate: loop variable i
    ready_to_zip,       \* file_rotate: local flag
    inotify_events_allow_sema,
    operations_on_log_files,     \* spinlock owner: "free", "observer", "zipper"
    zip_in_progress,
    needs_compression,  \* file_compression_state[i].needs_compression
    terminal_fname,     \* file_compression_state[i].terminal_fname (its base)
    zipper_thread_sync,
    wpc,                \* zipper thread: position in its code
    local_terminal_fname,
    old_archive,        \* compress_all_log_files_with_name: local copy
    cfiles,             \* compress...: indices collected into the tar command
    ci,                 \* compress...: loop variable of the cleanup loop
    gen,                \* gen[b][i]: content of <b>.log.<i>, or NoFile
    tars,               \* archives on disk: set of [name, ids, complete]
    archives,           \* static archives[file_idx]: last generated archive name
    now,                \* wall clock, seconds
    handled,            \* numbers of the sentinels whose handle_bak_file call returned
    archived,           \* sequence of the sentinel numbers put into archives so far
    appended,           \* sentinels that took the append strategy since zip_in_progress was last set
    append_path,        \* numbers of all the sentinels that took the append strategy
    rotate_from,        \* the chain of base_name when file_rotate was entered
    tar_failed_from,    \* the chain of the base being compressed when its tar command failed
    mpc,                \* the thread calling ipmgr_start/stop_log_rotator_thread: position
    wait_for_thread_init,
    cancel_pending,     \* threads with a pthread_cancel request not yet acted on
    orphan_tar          \* a tar command is running whose system() call was cancelled

vars == <<names, empty, onDisk, nread, opc, ev, findex, ri, ready_to_zip,
          inotify_events_allow_sema, operations_on_log_files, zip_in_progress,
          needs_compression, terminal_fname, zipper_thread_sync, wpc,
          local_terminal_fname, old_archive, cfiles, ci, gen, tars, archives,
          now, handled, archived, appended, append_path, rotate_from,
          tar_failed_from, mpc, wait_for_thread_init, cancel_pending,
          orphan_tar>>

observerVars == <<opc, ev, findex, ri, ready_to_zip>>

zipperVars == <<wpc, local_terminal_fname, old_archive, cfiles, ci>>

historyVars == <<appended, append_path, rotate_from, tar_failed_from>>

lifeVars == <<mpc, wait_for_thread_init, cancel_pending, orphan_tar>>

\* ------------------------------------------------------------------------
\* Pure helpers

Min(a, b) == IF a < b THEN a ELSE b

\* the generation files of base b in directory g: a base no file was ever
\* made for has none
ChainOf(g, b) == IF b \in DOMAIN g THEN g[b] ELSE NoChain

\* access(<b>.log.<i>, F_OK) == 0
Exists(b, i) == ChainOf(gen, b)[i] # NoFile

\* directory g with <b>.log.<i> holding content c (NoFile: the file is gone)
SetFile(g, b, i, c) ==
    [x \in (DOMAIN g) \cup {b} |->
        IF x = b THEN [ChainOf(g, b) EXCEPT ![i] = c] ELSE g[x]]

\* strstr(s, w) != NULL for two strings: w occurs in s at some position
strstr(s, w) ==
    \E p \in 1..(Len(s) - Len(w) + 1) : SubSeq(s, p, p + Len(w) - 1) = w

\* strstr(name, tok) != NULL for a word tok without a dot: the word occurs
\* inside some component of the name
HasToken(name, tok) == \E k \in 1..Len(name) : strstr(name[k], tok)

\* strstr(name, ".bak") != NULL: a component after a dot begins with "bak"
HasDotBak(name) ==
    \E k \in 2..Len(name) : Len(name[k]) >= 3 /\ SubSeq(name[k], 1, 3) = "bak"

\* get_file_type_index(): first target contained in the name, 0 if none
get_file_type_index(name) ==
    IF \E j \in Families : HasToken(name, target_files[j])
    THEN CHOOSE j \in Families :
            /\ HasToken(name, target_files[j])
            /\ \A h \in 1..(j - 1) : ~HasToken(name, target_files[h])
    ELSE 0

\* an extraction that accepts a name only with a stamp before its ".bak"
base_file_name_extract_stamped(name) ==
    IF Len(name) >= 3 /\ name[Len(name)] = "bak" THEN <<name[1]>> ELSE <<>>

\* an extraction that does not look at the last suffix of the name
base_file_name_extract_any_suffix(name) ==
    IF Len(name) >= 2 THEN <<name[1]>> ELSE <<>>

\* base_file_name_extract(): the name up to its first dot when the name
\* ends in ".bak", <<>> (return -1) otherwise
base_file_name_extract(name) ==
    IF Len(name) >= 2 /\ name[Len(name)] = "bak" THEN <<name[1]>> ELSE <<>>

\* sendfile(dest_fd, ...) refuses a destination opened with O_APPEND (EINVAL)
sendfile_ok(dest_o_append) == ~dest_o_append

\* the open() flags of the append destination contain O_APPEND
dest_open_o_append == TRUE

\* What tar puts into the archive: the contents of the files <b>.log.<i>
\* named on its command line (i in S), in ascending order of i
RECURSIVE TarContent(_, _, _, _)
TarContent(b, S, i, top) ==
    IF i > top THEN <<>>
    ELSE (IF i \in S /\ Exists(b, i) THEN ChainOf(gen, b)[i] ELSE <<>>)
            \o TarContent(b, S, i + 1, top)

\* ------------------------------------------------------------------------
\* the state the sem_init, spin_lock_init and initialisation statements of
\* ipmgr_start_log_rotator_thread leave
InitData ==
    /\ names = <<>>
    /\ empty = {}
    /\ onDisk = {}
    /\ nread = 0
    /\ ev = 0
    /\ findex = 0
    /\ ri = 0
    /\ ready_to_zip = FALSE
    /\ inotify_events_allow_sema = 1
    /\ operations_on_log_files = "free"
    /\ zip_in_progress = FALSE
    /\ needs_compression = [j \in Families |-> FALSE]
    /\ terminal_fname = [j \in Families |-> ""]
    /\ zipper_thread_sync = 0
    /\ local_terminal_fname = ""
    /\ old_archive = NoArchive
    /\ cfiles = {}
    /\ ci = 0
    /\ tars = {}
    /\ archives = [j \in Families |-> NoArchive]
    /\ now = 0
    /\ handled = {}
    /\ archived = <<>>
    /\ appended = <<>>
    /\ append_path = {}
    /\ rotate_from = NoChain
    /\ tar_failed_from = NoChain
    /\ wait_for_thread_init = 0
    /\ cancel_pending = {}
    /\ orphan_tar = FALSE

\* the watched directory holds no generation file
EmptyDirectory == gen = [b \in Bases |-> NoChain]

\* both threads started and waiting: the state when
\* ipmgr_start_log_rotator_thread returns
Init ==
    /\ InitData
    /\ EmptyDirectory
    /\ opc = "read"
    /\ wpc = "sem_wait"
    /\ mpc = "running"

\* ------------------------------------------------------------------------
\* File operations on the generation chain of one base

\* a remove that leaves the terminal file log.N in place
RemoveGenNotTerminal(g, b, i) ==
    IF i = DEFAULT_MAX_FILES THEN g ELSE SetFile(g, b, i, NoFile)

\* remove(<b>.log.<i>)
RemoveGen(g, b, i) == SetFile(g, b, i, NoFile)

\* a rename that exchanges source and destination instead of replacing
RenameGenExchange(g, b, i) ==
    SetFile(SetFile(g, b, i, ChainOf(g, b)[i + 1]), b, i + 1, ChainOf(g, b)[i])

\* rename(<b>.log.<i>, <b>.log.<i+1>): the destination is replaced
RenameGen(g, b, i) ==
    SetFile(SetFile(g, b, i, NoFile), b, i + 1, ChainOf(g, b)[i])

\* the bytes of the k-th created file: its arrival number, or nothing
SentinelContent(k) == IF k \in empty THEN <<>> ELSE <<k>>

\* stat_buf.st_size of the k-th created file (line 767)
st_size(k) == Len(SentinelContent(k))

\* a promotion that puts the sentinel at index 1
PromoteToLog1(g, b, k) == SetFile(g, b, 1, SentinelContent(k))

\* rename(<sentinel>, <b>.log.0): the destination is replaced
PromoteToLog0(g, b, k) == SetFile(g, b, 0, SentinelContent(k))

\* the sendfile() loop onto an existing <b>.log.0
AppendToLog0(g, b, k) == SetFile(g, b, 0, ChainOf(g, b)[0] \o SentinelContent(k))

\* a spinlock that does not exclude: the lock is taken whoever owns it
spin_can_lock_always(owner) == TRUE

\* pthread_spin_lock() returns only when the lock is free
spin_can_lock(owner) == owner = "free"

\* a sem_wait() that returns whatever the count is
sem_can_wait_always(count) == TRUE

\* sem_wait() returns only when the count is positive
sem_can_wait(count) == count > 0

\* the name of the event being handled and what handle_bak_file derives from it
EvName == names[ev]

IsDummy == HasToken(EvName, "dummy")

\* base_name of handle_bak_file, or of handle_dummy_bak_file_creation
base_name ==
    IF IsDummy THEN target_files[findex] ELSE base_file_name_extract(EvName)[1]

\* ------------------------------------------------------------------------
\* Producers (outside the program): create a sentinel; inotify queues an event
ProducerCreate ==
    /\ Len(names) < MaxSentinels
    /\ Len(names) - nread < MaxQueue
    /\ \E n \in SentinelNames(Len(names) + 1) : names' = Append(names, n)
    /\ onDisk' = onDisk \cup {Len(names) + 1}
    /\ UNCHANGED <<empty, nread, observerVars, zipperVars, inotify_events_allow_sema,
                   operations_on_log_files, zip_in_progress, needs_compression,
                   terminal_fname, zipper_thread_sync, gen, tars, archives, now,
                   handled, archived,
                   lifeVars, historyVars>>

\* ------------------------------------------------------------------------
\* Observer thread: log_rotate_thread_fn

\* read() one event and classify its name (lines 895-920)
log_rotate_read ==
    /\ opc = "read"
    /\ nread < Len(names)
    /\ nread' = nread + 1
    /\ LET k == nread + 1
           j == get_file_type_index(names[k])
       IN IF HasDotBak(names[k]) /\ j # 0
          THEN /\ ev' = k
               /\ findex' = j
               /\ opc' = "sem_wait"
          ELSE UNCHANGED <<ev, findex, opc>>
    /\ UNCHANGED <<names, empty, onDisk, ri, ready_to_zip, zipperVars,
                   inotify_events_allow_sema, operations_on_log_files,
                   zip_in_progress, needs_compression, terminal_fname,
                   zipper_thread_sync, gen, tars, archives, now, handled, archived,
                   lifeVars, historyVars>>

\* sem_wait(&inotify_events_allow_sema) (line 921)
log_rotate_sem_wait ==
    /\ opc = "sem_wait"
    /\ sem_can_wait(inotify_events_allow_sema)
    /\ inotify_events_allow_sema' = inotify_events_allow_sema - 1
    /\ opc' = "handle"
    /\ UNCHANGED <<names, empty, onDisk, nread, ev, findex, ri, ready_to_zip, zipperVars,
                   operations_on_log_files, zip_in_progress, needs_compression,
                   terminal_fname, zipper_thread_sync, gen, tars, archives, now,
                   handled, archived,
                   lifeVars, historyVars>>

\* handle_bak_file up to the read of zip_in_progress (lines 698-743)
handle_bak_file_enter ==
    /\ opc = "handle"
    /\ IF ev \notin onDisk
       THEN /\ opc' = "sem_post"
            /\ handled' = handled \cup {ev}
            /\ UNCHANGED onDisk
       ELSE IF IsDummy
       THEN /\ opc' = IF ~Exists(target_files[findex], 0)
                      THEN "dummy_remove"
                      ELSE "spin_lock"
            /\ UNCHANGED <<onDisk, handled>>
       ELSE IF base_file_name_extract(EvName) = <<>>
       THEN /\ opc' = "sem_post"
            /\ handled' = handled \cup {ev}
            /\ UNCHANGED onDisk
       ELSE /\ opc' = IF zip_in_progress THEN "append" ELSE "rename"
            /\ UNCHANGED <<onDisk, handled>>
    /\ UNCHANGED <<names, empty, nread, ev, findex, ri, ready_to_zip, zipperVars,
                   inotify_events_allow_sema, operations_on_log_files,
                   zip_in_progress, needs_compression, terminal_fname,
                   zipper_thread_sync, gen, tars, archives, now, archived,
                   lifeVars, historyVars>>

\* the append strategy (lines 744-811)
handle_bak_file_append ==
    /\ opc = "append"
    /\ IF ~Exists(base_name, 0)
       THEN /\ gen' = PromoteToLog0(gen, base_name, ev)
            /\ onDisk' = onDisk \ {ev}
       ELSE LET sent == st_size(ev) > 0 /\ sendfile_ok(dest_open_o_append)
                offset == IF sent THEN st_size(ev) ELSE 0
            IN /\ gen' = IF sent THEN AppendToLog0(gen, base_name, ev) ELSE gen
               /\ onDisk' = IF offset = st_size(ev) THEN onDisk \ {ev} ELSE onDisk
    /\ opc' = "sem_post"
    /\ handled' = handled \cup {ev}
    /\ appended' = Append(appended, ev)
    /\ append_path' = append_path \cup {ev}
    /\ UNCHANGED <<rotate_from, tar_failed_from>>
    /\ UNCHANGED <<names, empty, nread, ev, findex, ri, ready_to_zip, zipperVars,
                   inotify_events_allow_sema, operations_on_log_files,
                   zip_in_progress, needs_compression, terminal_fname,
                   zipper_thread_sync, tars, archives, now, archived,
                   lifeVars>>

\* normal case: rename the sentinel to log.0 (lines 818-825)
handle_bak_file_rename ==
    /\ opc = "rename"
    /\ gen' = PromoteToLog0(gen, base_name, ev)
    /\ onDisk' = onDisk \ {ev}
    /\ opc' = "spin_lock"
    /\ UNCHANGED <<names, empty, nread, ev, findex, ri, ready_to_zip, zipperVars,
                   inotify_events_allow_sema, operations_on_log_files,
                   zip_in_progress, needs_compression, terminal_fname,
                   zipper_thread_sync, tars, archives, now, handled, archived,
                   lifeVars, historyVars>>

\* pthread_spin_lock(&operations_on_log_files) (lines 829 and 248)
handle_bak_file_spin_lock ==
    /\ opc = "spin_lock"
    /\ spin_can_lock(operations_on_log_files)
    /\ operations_on_log_files' = "observer"
    /\ rotate_from' = ChainOf(gen, base_name)
    /\ opc' = "rotate_delete"
    /\ UNCHANGED <<names, empty, onDisk, nread, ev, findex, ri, ready_to_zip, zipperVars,
                   inotify_events_allow_sema, zip_in_progress, needs_compression,
                   terminal_fname, zipper_thread_sync, gen, tars, archives, now,
                   handled, archived,
                   lifeVars, appended, append_path, tar_failed_from>>

\* file_rotate: delete the oldest file (lines 580-590)
file_rotate_delete ==
    /\ opc = "rotate_delete"
    /\ gen' = IF Exists(base_name, DEFAULT_MAX_FILES)
              THEN RemoveGen(gen, base_name, DEFAULT_MAX_FILES)
              ELSE gen
    /\ ready_to_zip' = FALSE
    /\ ri' = DEFAULT_MAX_FILES - 1
    /\ opc' = "rotate_rename"
    /\ UNCHANGED <<names, empty, onDisk, nread, ev, findex, zipperVars,
                   inotify_events_allow_sema, operations_on_log_files,
                   zip_in_progress, needs_compression, terminal_fname,
                   zipper_thread_sync, tars, archives, now, handled, archived,
                   lifeVars, historyVars>>

\* a test that takes every rename of the loop for the one into log.N
promoted_to_terminal_any(i) == TRUE

\* the rename of this iteration made the terminal file log.N (line 608)
promoted_to_terminal(i) == i = DEFAULT_MAX_FILES - 1

\* file_rotate: one iteration of the rename loop (lines 596-616)
file_rotate_rename ==
    /\ opc = "rotate_rename"
    /\ IF Exists(base_name, ri)
       THEN /\ gen' = RenameGen(gen, base_name, ri)
            /\ ready_to_zip' = (ready_to_zip \/ promoted_to_terminal(ri))
       ELSE UNCHANGED <<gen, ready_to_zip>>
    /\ IF ri > 0
       THEN /\ ri' = ri - 1
            /\ opc' = "rotate_rename"
       ELSE /\ ri' = ri
            /\ opc' = "rotate_flag"
    /\ UNCHANGED <<names, empty, onDisk, nread, ev, findex, zipperVars,
                   inotify_events_allow_sema, operations_on_log_files,
                   zip_in_progress, needs_compression, terminal_fname,
                   zipper_thread_sync, tars, archives, now, handled, archived,
                   lifeVars, historyVars>>

\* file_rotate: record the trigger under compression_state_lock (lines 619-633)
file_rotate_flag ==
    /\ opc = "rotate_flag"
    /\ LET file_idx == get_file_type_index(<<base_name>>)
       IN IF ready_to_zip /\ file_idx # 0
          THEN /\ terminal_fname' = [terminal_fname EXCEPT ![file_idx] = base_name]
               /\ needs_compression' = [needs_compression EXCEPT ![file_idx] = TRUE]
               /\ opc' = "rotate_post"
          ELSE /\ UNCHANGED <<terminal_fname, needs_compression>>
               /\ opc' = "spin_unlock"
    /\ UNCHANGED <<names, empty, onDisk, nread, ev, findex, ri, ready_to_zip, zipperVars,
                   inotify_events_allow_sema, operations_on_log_files,
                   zip_in_progress, zipper_thread_sync, gen, tars, archives, now,
                   handled, archived,
                   lifeVars, historyVars>>

\* file_rotate: sem_post(&zipper_thread_sync) (lines 636-637)
file_rotate_post ==
    /\ opc = "rotate_post"
    /\ zipper_thread_sync' = zipper_thread_sync + 1
    /\ ready_to_zip' = FALSE
    /\ opc' = "spin_unlock"
    /\ UNCHANGED <<names, empty, onDisk, nread, ev, findex, ri, zipperVars,
                   inotify_events_allow_sema, operations_on_log_files,
                   zip_in_progress, needs_compression, terminal_fname, gen, tars,
                   archives, now, handled, archived,
                   lifeVars, historyVars>>

\* pthread_spin_unlock and return: from handle_bak_file (lines 833-834), or
\* from handle_dummy_bak_file_creation (line 255) to the remove of line 714
handle_bak_file_spin_unlock ==
    /\ opc = "spin_unlock"
    /\ operations_on_log_files' = "free"
    /\ handled' = IF IsDummy THEN handled ELSE handled \cup {ev}
    /\ rotate_from' = NoChain
    /\ opc' = IF IsDummy THEN "dummy_remove" ELSE "sem_post"
    /\ UNCHANGED <<names, empty, onDisk, nread, ev, findex, ri, ready_to_zip, zipperVars,
                   inotify_events_allow_sema, zip_in_progress, needs_compression,
                   terminal_fname, zipper_thread_sync, gen, tars, archives, now,
                   archived,
                   lifeVars, appended, append_path, tar_failed_from>>

\* remove() of the dummy sentinel after handle_dummy_bak_file_creation has
\* returned, and return (lines 714-717)
handle_bak_file_dummy_remove ==
    /\ opc = "dummy_remove"
    /\ onDisk' = onDisk \ {ev}
    /\ handled' = handled \cup {ev}
    /\ opc' = "sem_post"
    /\ UNCHANGED <<names, empty, nread, ev, findex, ri, ready_to_zip, zipperVars,
                   inotify_events_allow_sema, operations_on_log_files,
                   zip_in_progress, needs_compression, terminal_fname,
                   zipper_thread_sync, gen, tars, archives, now, archived,
                   lifeVars, historyVars>>

\* sem_post(&inotify_events_allow_sema) (line 923)
log_rotate_sem_post ==
    /\ opc = "sem_post"
    /\ inotify_events_allow_sema' = inotify_events_allow_sema + 1
    /\ opc' = "read"
    /\ ev' = 0
    /\ findex' = 0
    /\ UNCHANGED <<names, empty, onDisk, nread, ri, ready_to_zip, zipperVars,
                   operations_on_log_files, zip_in_progress, needs_compression,
                   terminal_fname, zipper_thread_sync, gen, tars, archives, now,
                   handled, archived,
                   lifeVars, historyVars>>


\* ------------------------------------------------------------------------
\* Zipper thread: zip_log_file_thread_fn

\* a scan that never finds a file type to compress
none_needing_compression(nc) == 0

\* a scan that takes the last file type whose flag is set
last_needing_compression(nc) ==
    IF \E j \in Families : nc[j]
    THEN CHOOSE j \in Families :
            nc[j] /\ \A h \in (j + 1)..DEFAULT_NUM_TARGET_FILES : ~nc[h]
    ELSE 0

\* first file type whose needs_compression is set, 0 if none (lines 489-503)
first_needing_compression(nc) ==
    IF \E j \in Families : nc[j]
    THEN CHOOSE j \in Families : nc[j] /\ \A h \in 1..(j - 1) : ~nc[h]
    ELSE 0

\* rename_all_log0_to_log1_log_file(): the loop from file type i on; it
\* returns at the first file type that has no log.0 (lines 264-281)
RECURSIVE rename_all_log0_to_log1_log_file(_, _)
rename_all_log0_to_log1_log_file(g, i) ==
    IF i > DEFAULT_NUM_TARGET_FILES THEN g
    ELSE IF g[target_files[i]][0] = NoFile THEN g
    ELSE rename_all_log0_to_log1_log_file(RenameGen(g, target_files[i], 0), i + 1)

\* a parse that stops one generation short of the terminal one
max_index_short == DEFAULT_MAX_FILES - 1

\* max_index: the number sscanf reads at the end of the terminal file name,
\* which file_rotate wrote as DEFAULT_MAX_FILES (lines 322-326, 629-631)
max_index == DEFAULT_MAX_FILES

\* the archive files on disk named nm
TarsNamed(nm) == {a \in tars : a.name = nm}

\* the old archive is deleted when the flag is set, a name was recorded and
\* the file exists (lines 409-411)
delete_old_archive(flag, old) ==
    flag /\ old # NoArchive /\ TarsNamed(old) # {}

\* sem_wait(&zipper_thread_sync) (line 483)
zip_thread_sem_wait ==
    /\ wpc = "sem_wait"
    /\ sem_can_wait(zipper_thread_sync)
    /\ zipper_thread_sync' = zipper_thread_sync - 1
    /\ wpc' = "scan"
    /\ UNCHANGED <<names, empty, onDisk, nread, observerVars, local_terminal_fname,
                   old_archive, cfiles, ci, inotify_events_allow_sema,
                   operations_on_log_files, zip_in_progress, needs_compression,
                   terminal_fname, gen, tars, archives, now, handled, archived,
                   lifeVars, historyVars>>

\* find the file type to compress under compression_state_lock (lines 486-509)
zip_thread_scan ==
    /\ wpc = "scan"
    /\ LET i == first_needing_compression(needs_compression)
       IN IF i # 0
          THEN /\ local_terminal_fname' = terminal_fname[i]
               /\ needs_compression' = [needs_compression EXCEPT ![i] = FALSE]
               /\ wpc' = "spin_lock"
          ELSE /\ UNCHANGED <<local_terminal_fname, needs_compression>>
               /\ wpc' = "sem_wait"
    /\ UNCHANGED <<names, empty, onDisk, nread, observerVars, old_archive, cfiles, ci,
                   inotify_events_allow_sema, operations_on_log_files,
                   zip_in_progress, terminal_fname, zipper_thread_sync, gen, tars,
                   archives, now, handled, archived,
                   lifeVars, historyVars>>

\* pthread_spin_lock(&operations_on_log_files) (line 513)
zip_thread_spin_lock ==
    /\ wpc = "spin_lock"
    /\ spin_can_lock(operations_on_log_files)
    /\ operations_on_log_files' = "zipper"
    /\ wpc' = "set_zip"
    /\ UNCHANGED <<names, empty, onDisk, nread, observerVars, local_terminal_fname,
                   old_archive, cfiles, ci, inotify_events_allow_sema,
                   zip_in_progress, needs_compression, terminal_fname,
                   zipper_thread_sync, gen, tars, archives, now, handled, archived,
                   lifeVars, historyVars>>

\* atomic_store(&zip_in_progress, true) (line 516)
zip_thread_set_flag ==
    /\ wpc = "set_zip"
    /\ zip_in_progress' = TRUE
    /\ appended' = <<>>
    /\ UNCHANGED <<append_path, rotate_from, tar_failed_from>>
    /\ wpc' = "compress"
    /\ UNCHANGED <<names, empty, onDisk, nread, observerVars, local_terminal_fname,
                   old_archive, cfiles, ci, inotify_events_allow_sema,
                   operations_on_log_files, needs_compression, terminal_fname,
                   zipper_thread_sync, gen, tars, archives, now, handled, archived,
                   lifeVars>>

\* compress_all_log_files_with_name: parse the name, generate the archive
\* name, collect the numbered files (lines 311-406)
compress_collect ==
    /\ wpc = "compress"
    /\ LET fname == <<local_terminal_fname, "log">>
           file_idx == get_file_type_index(fname)
           found == {i \in 1..max_index : Exists(local_terminal_fname, i)}
       IN IF file_idx = 0
          THEN /\ wpc' = "gate_wait"
               /\ UNCHANGED <<now, old_archive, archives, cfiles>>
          ELSE /\ \E t \in now..Min(now + 1, MaxTime) : now' = t
               /\ old_archive' = archives[file_idx]
               /\ archives' = [archives EXCEPT
                                 ![file_idx] = <<local_terminal_fname, now'>>]
               /\ cfiles' = found
               /\ wpc' = IF found = {} THEN "gate_wait" ELSE "remove_old"
    /\ UNCHANGED <<names, empty, onDisk, nread, observerVars, local_terminal_fname, ci,
                   inotify_events_allow_sema, operations_on_log_files,
                   zip_in_progress, needs_compression, terminal_fname,
                   zipper_thread_sync, gen, tars, handled, archived,
                   lifeVars, historyVars>>

\* compress...: delete the old archive (lines 408-420)
compress_remove_old ==
    /\ wpc = "remove_old"
    /\ tars' = IF delete_old_archive(CTRL_F_DEL_OBSOLETE_TAR_FILES, old_archive)
               THEN tars \ TarsNamed(old_archive)
               ELSE tars
    /\ wpc' = "tar"
    /\ UNCHANGED <<names, empty, onDisk, nread, observerVars, local_terminal_fname,
                   old_archive, cfiles, ci, inotify_events_allow_sema,
                   operations_on_log_files, zip_in_progress, needs_compression,
                   terminal_fname, zipper_thread_sync, gen, archives, now, handled,
                   archived,
                   lifeVars, historyVars>>

\* the archive file tar has created and not yet finished writing
PartialArchive(nm) == [name |-> nm, ids |-> <<>>, complete |-> FALSE]

\* the archive tar has finished: the contents of the files of its command line
FullArchive(nm, ids) == [name |-> nm, ids |-> ids, complete |-> TRUE]

\* compress...: system(cmd) starts the shell and waits for it; tar creates the
\* archive file, replacing a file of that name, and begins to fill it
\* (line 424)
compress_tar_start ==
    /\ wpc = "tar"
    /\ LET file_idx == get_file_type_index(<<local_terminal_fname, "log">>)
       IN tars' = (tars \ TarsNamed(archives[file_idx]))
                     \cup {PartialArchive(archives[file_idx])}
    /\ wpc' = "tar_wait"
    /\ UNCHANGED <<names, empty, onDisk, nread, observerVars, local_terminal_fname,
                   old_archive, cfiles, ci, inotify_events_allow_sema,
                   operations_on_log_files, zip_in_progress, needs_compression,
                   terminal_fname, zipper_thread_sync, gen, archives, now, handled,
                   archived,
                   lifeVars, historyVars>>

\* compress...: tar has written the archive and system(cmd) returns 0
\* (lines 424-434)
compress_tar ==
    /\ wpc = "tar_wait"
    /\ LET file_idx == get_file_type_index(<<local_terminal_fname, "log">>)
           ids == TarContent(local_terminal_fname, cfiles, 1, max_index)
       IN /\ tars' = (tars \ TarsNamed(archives[file_idx]))
                        \cup {FullArchive(archives[file_idx], ids)}
          /\ archived' = archived \o ids
    /\ IF CTRL_F_DELETE_OBSOLETE_LOG_FILES
       THEN /\ ci' = 1
            /\ wpc' = "cleanup"
       ELSE /\ ci' = ci
            /\ wpc' = "gate_wait"
    /\ UNCHANGED <<names, empty, onDisk, nread, observerVars, local_terminal_fname,
                   old_archive, cfiles, inotify_events_allow_sema,
                   operations_on_log_files, zip_in_progress, needs_compression,
                   terminal_fname, zipper_thread_sync, gen, archives, now, handled,
                   lifeVars, historyVars>>

\* compress...: one iteration of the cleanup loop (lines 436-446)
compress_cleanup ==
    /\ wpc = "cleanup"
    /\ gen' = RemoveGen(gen, local_terminal_fname, ci)
    /\ IF ci < max_index
       THEN /\ ci' = ci + 1
            /\ wpc' = "cleanup"
       ELSE /\ ci' = ci
            /\ wpc' = "gate_wait"
    /\ UNCHANGED <<names, empty, onDisk, nread, observerVars, local_terminal_fname,
                   old_archive, cfiles, inotify_events_allow_sema,
                   operations_on_log_files, zip_in_progress, needs_compression,
                   terminal_fname, zipper_thread_sync, tars, archives, now, handled,
                   archived,
                   lifeVars, historyVars>>

\* sem_wait(&inotify_events_allow_sema) (line 536)
zip_thread_gate_wait ==
    /\ wpc = "gate_wait"
    /\ sem_can_wait(inotify_events_allow_sema)
    /\ inotify_events_allow_sema' = inotify_events_allow_sema - 1
    /\ wpc' = "rehome"
    /\ UNCHANGED <<names, empty, onDisk, nread, observerVars, local_terminal_fname,
                   old_archive, cfiles, ci, operations_on_log_files,
                   zip_in_progress, needs_compression, terminal_fname,
                   zipper_thread_sync, gen, tars, archives, now, handled, archived,
                   lifeVars, historyVars>>

\* rename_all_log0_to_log1_log_file() (line 537)
zip_thread_rehome ==
    /\ wpc = "rehome"
    /\ gen' = rename_all_log0_to_log1_log_file(gen, 1)
    /\ wpc' = "gate_post"
    /\ UNCHANGED <<names, empty, onDisk, nread, observerVars, local_terminal_fname,
                   old_archive, cfiles, ci, inotify_events_allow_sema,
                   operations_on_log_files, zip_in_progress, needs_compression,
                   terminal_fname, zipper_thread_sync, tars, archives, now, handled,
                   archived,
                   lifeVars, historyVars>>

\* sem_post(&inotify_events_allow_sema) (line 538)
zip_thread_gate_post ==
    /\ wpc = "gate_post"
    /\ inotify_events_allow_sema' = inotify_events_allow_sema + 1
    /\ wpc' = "clear_zip"
    /\ UNCHANGED <<names, empty, onDisk, nread, observerVars, local_terminal_fname,
                   old_archive, cfiles, ci, operations_on_log_files,
                   zip_in_progress, needs_compression, terminal_fname,
                   zipper_thread_sync, gen, tars, archives, now, handled, archived,
                   lifeVars, historyVars>>

\* atomic_store(&zip_in_progress, false) (line 543)
zip_thread_clear_flag ==
    /\ wpc = "clear_zip"
    /\ zip_in_progress' = FALSE
    /\ wpc' = "spin_unlock"
    /\ UNCHANGED <<names, empty, onDisk, nread, observerVars, local_terminal_fname,
                   old_archive, cfiles, ci, inotify_events_allow_sema,
                   operations_on_log_files, needs_compression, terminal_fname,
                   zipper_thread_sync, gen, tars, archives, now, handled, archived,
                   lifeVars, historyVars>>

\* pthread_spin_unlock(&operations_on_log_files) (line 546)
zip_thread_spin_unlock ==
    /\ wpc = "spin_unlock"
    /\ operations_on_log_files' = "free"
    /\ wpc' = "sem_wait"
    /\ tar_failed_from' = NoChain
    /\ UNCHANGED <<names, empty, onDisk, nread, observerVars, local_terminal_fname,
                   old_archive, cfiles, ci, inotify_events_allow_sema,
                   zip_in_progress, needs_compression, terminal_fname,
                   zipper_thread_sync, gen, tars, archives, now, handled, archived,
                   lifeVars, appended, append_path, rotate_from>>

\* ------------------------------------------------------------------------
ObserverStep ==
    \/ log_rotate_read
    \/ log_rotate_sem_wait
    \/ handle_bak_file_enter
    \/ handle_bak_file_append
    \/ handle_bak_file_rename
    \/ handle_bak_file_spin_lock
    \/ file_rotate_delete
    \/ file_rotate_rename
    \/ file_rotate_flag
    \/ file_rotate_post
    \/ handle_bak_file_spin_unlock
    \/ log_rotate_sem_post

\* the observer where files with the word "dummy" in their name are created
DummyObserverStep == ObserverStep \/ handle_bak_file_dummy_remove

ZipperStep ==
    \/ zip_thread_sem_wait
    \/ zip_thread_scan
    \/ zip_thread_spin_lock
    \/ zip_thread_set_flag
    \/ compress_collect
    \/ compress_remove_old
    \/ compress_tar_start
    \/ compress_tar
    \/ compress_cleanup
    \/ zip_thread_gate_wait
    \/ zip_thread_rehome
    \/ zip_thread_gate_post
    \/ zip_thread_clear_flag
    \/ zip_thread_spin_unlock

Next == ProducerCreate \/ ObserverStep \/ ZipperStep

Spec == Init /\ [][Next]_vars


\* The scheduler runs each thread that can take a step; the producers are
\* under no obligation to create sentinels.
FairSpec == Spec /\ WF_vars(ObserverStep) /\ WF_vars(ZipperStep)

\* ------------------------------------------------------------------------
\* Start and stop: ipmgr_log_rotator_threads_init, the initialisation of both
\* thread functions and ipmgr_stop_log_rotator_thread

\* everything but the positions of the three threads and lifeVars
dataVars == <<names, empty, onDisk, nread, ev, findex, ri, ready_to_zip,
              inotify_events_allow_sema, operations_on_log_files,
              zip_in_progress, needs_compression, terminal_fname,
              zipper_thread_sync, local_terminal_fname, old_archive, cfiles,
              ci, gen, tars, archives, now, handled, archived, historyVars>>

\* the thread has ended: it returned or it acted on a cancellation request
Terminated(pc) == pc \in {"returned", "cancelled"}

\* pthread_create(&log_rotator_thread, ...) succeeds (line 967)
threads_init_create_rotator ==
    /\ mpc = "create_rotator"
    /\ opc' = "init"
    /\ mpc' = "wait_rotator"
    /\ UNCHANGED <<dataVars, wpc, wait_for_thread_init, cancel_pending, orphan_tar>>

\* pthread_create(&zipper_thread, ...) succeeds (line 985)
threads_init_create_zipper ==
    /\ mpc = "create_zipper"
    /\ wpc' = "init"
    /\ mpc' = "wait_zipper"
    /\ UNCHANGED <<dataVars, opc, wait_for_thread_init, cancel_pending, orphan_tar>>

\* pthread_create fails: exit(EXIT_FAILURE) ends the process and its threads
\* (lines 967-970 and 985-988)
threads_init_create_fails ==
    /\ mpc \in {"create_rotator", "create_zipper"}
    /\ mpc' = "exited"
    /\ opc' = "exited"
    /\ wpc' = "exited"
    /\ UNCHANGED <<dataVars, wait_for_thread_init, cancel_pending, orphan_tar>>

\* sem_wait(&wait_for_thread_init) (lines 973 and 991)
threads_init_sem_wait ==
    /\ mpc \in {"wait_rotator", "wait_zipper"}
    /\ sem_can_wait(wait_for_thread_init)
    /\ wait_for_thread_init' = wait_for_thread_init - 1
    /\ mpc' = IF mpc = "wait_rotator" THEN "create_zipper" ELSE "running"
    /\ UNCHANGED <<dataVars, opc, wpc, cancel_pending, orphan_tar>>

\* log_rotate_thread_fn: inotify_init and inotify_add_watch succeed
\* (lines 860-871). The queue of the new watch is empty: the files created
\* before it raise no event, the files created from now on do.
log_rotate_init ==
    /\ opc = "init"
    /\ nread' = Len(names)
    /\ opc' = "init_post"
    /\ UNCHANGED <<names, empty, onDisk, ev, findex, ri, ready_to_zip,
                   inotify_events_allow_sema, operations_on_log_files,
                   zip_in_progress, needs_compression, terminal_fname,
                   zipper_thread_sync, local_terminal_fname, old_archive, cfiles,
                   ci, gen, tars, archives, now, handled, archived, historyVars,
                   wpc, lifeVars>>

\* log_rotate_thread_fn: the thread posts wait_for_thread_init and enters
\* its loop (lines 880-895)
log_rotate_init_post ==
    /\ opc = "init_post"
    /\ wait_for_thread_init' = wait_for_thread_init + 1
    /\ opc' = "read"
    /\ UNCHANGED <<dataVars, wpc, mpc, cancel_pending, orphan_tar>>

\* log_rotate_thread_fn: inotify_init or inotify_add_watch fails, the thread
\* returns NULL (lines 861-864 and 874-878)
log_rotate_init_fails ==
    /\ opc = "init"
    /\ opc' = "returned"
    /\ UNCHANGED <<dataVars, wpc, lifeVars>>

\* log_rotate_thread_fn: read() returns a negative length, the thread leaves
\* its loop and returns NULL (lines 895-900 and 935-937)
log_rotate_read_fails ==
    /\ opc = "read"
    /\ opc' = "returned"
    /\ UNCHANGED <<dataVars, wpc, lifeVars>>

\* zip_log_file_thread_fn: the thread posts wait_for_thread_init
\* (lines 474-478)
zip_thread_init ==
    /\ wpc = "init"
    /\ wait_for_thread_init' = wait_for_thread_init + 1
    /\ wpc' = "sem_wait"
    /\ UNCHANGED <<dataVars, opc, mpc, cancel_pending, orphan_tar>>

\* pthread_cancel(log_rotator_thread) (line 1053)
stop_cancel_rotator ==
    /\ mpc = "running"
    /\ cancel_pending' = cancel_pending \cup {"observer"}
    /\ mpc' = "join_rotator"
    /\ UNCHANGED <<dataVars, opc, wpc, wait_for_thread_init, orphan_tar>>

\* pthread_join(log_rotator_thread, NULL) returns (line 1054)
stop_join_rotator ==
    /\ mpc = "join_rotator"
    /\ Terminated(opc)
    /\ mpc' = "cancel_zipper"
    /\ UNCHANGED <<dataVars, opc, wpc, wait_for_thread_init, cancel_pending, orphan_tar>>

\* pthread_cancel(zipper_thread) (line 1058)
stop_cancel_zipper ==
    /\ mpc = "cancel_zipper"
    /\ cancel_pending' = cancel_pending \cup {"zipper"}
    /\ mpc' = "join_zipper"
    /\ UNCHANGED <<dataVars, opc, wpc, wait_for_thread_init, orphan_tar>>

\* pthread_join(zipper_thread, NULL) returns; the semaphores, spinlocks and
\* the watch are destroyed (lines 1059-1069)
stop_join_zipper ==
    /\ mpc = "join_zipper"
    /\ Terminated(wpc)
    /\ mpc' = "stopped"
    /\ UNCHANGED <<dataVars, opc, wpc, wait_for_thread_init, cancel_pending, orphan_tar>>

\* the positions of the observer whose next call is a cancellation point
\* (deferred cancellation, lines 883-884): read() 895; printf() 915 and
\* sem_wait() 921; printf() 702 of handle_bak_file; printf() 742 and open()
\* 760 of the append strategy. A thread that spins in pthread_spin_lock() (lines 829 and 248) is
\* at no cancellation point.
observer_cancellation_point(pc) ==
    pc \in {"read", "sem_wait", "handle", "append"}

\* the observer acts on the pending cancellation request: at one of these
\* positions, at the fprintf() of file_rotate for an unknown file type
\* (line 623), or at the call that follows a file operation it has just done:
\* printf() 750, close() 787 and printf() 792 of the append strategy,
\* printf() 821 after the rename of the normal path, printf() 588 and 602
\* of file_rotate. The thread ends where it is: it
\* returns from no function, posts no semaphore and releases no lock.
log_rotate_cancelled ==
    /\ "observer" \in cancel_pending
    /\ opc' = "cancelled"
    /\ cancel_pending' = cancel_pending \ {"observer"}
    /\ \/ /\ \/ observer_cancellation_point(opc)
             \/ /\ opc = "rotate_flag"
                /\ ready_to_zip
                /\ get_file_type_index(<<base_name>>) = 0
          /\ UNCHANGED <<gen, onDisk, appended, append_path>>
       \/ /\ opc = "append"
          /\ IF ~Exists(base_name, 0)
             THEN /\ gen' = PromoteToLog0(gen, base_name, ev)
                  /\ onDisk' = onDisk \ {ev}
             ELSE LET sent == st_size(ev) > 0 /\ sendfile_ok(dest_open_o_append)
                      offset == IF sent THEN st_size(ev) ELSE 0
                  IN /\ gen' = IF sent THEN AppendToLog0(gen, base_name, ev)
                                ELSE gen
                     /\ \/ onDisk' = IF offset = st_size(ev)
                                      THEN onDisk \ {ev}
                                      ELSE onDisk
                        \/ sent /\ onDisk' = onDisk
          /\ appended' = Append(appended, ev)
          /\ append_path' = append_path \cup {ev}
       \/ /\ opc = "rename"
          /\ gen' = PromoteToLog0(gen, base_name, ev)
          /\ onDisk' = onDisk \ {ev}
          /\ UNCHANGED <<appended, append_path>>
       \/ /\ opc = "rotate_delete"
          /\ Exists(base_name, DEFAULT_MAX_FILES)
          /\ gen' = RemoveGen(gen, base_name, DEFAULT_MAX_FILES)
          /\ UNCHANGED <<onDisk, appended, append_path>>
       \/ /\ opc = "rotate_rename"
          /\ Exists(base_name, ri)
          /\ gen' = RenameGen(gen, base_name, ri)
          /\ UNCHANGED <<onDisk, appended, append_path>>
    /\ UNCHANGED <<names, empty, nread, ev, findex, ri, ready_to_zip,
                   inotify_events_allow_sema, operations_on_log_files,
                   zip_in_progress, needs_compression, terminal_fname,
                   zipper_thread_sync, local_terminal_fname, old_archive, cfiles,
                   ci, tars, archives, now, handled, archived, rotate_from,
                   tar_failed_from, wpc, mpc, wait_for_thread_init, orphan_tar>>

\* the positions of the zipper whose next call is a cancellation point
\* (deferred cancellation, lines 474-475): sem_wait() 483; printf() 316 on
\* entry of compress_all_log_files_with_name; printf() 387 after the archive
\* name was made; printf() 423 and system() 424, on entry and while it waits
\* for the shell; printf() 429-442 of the clean-up; sem_wait() 536. The
\* fprintf() of a wake-up with nothing to compress (line 507) is one more.
zipper_cancellation_point(pc) ==
    pc \in {"sem_wait", "compress", "remove_old", "tar", "tar_wait", "cleanup",
            "gate_wait"}

\* rename_all_log0_to_log1_log_file() up to the rename of file type last
RECURSIVE rename_log0_to_log1_upto(_, _, _)
rename_log0_to_log1_upto(g, i, last) ==
    IF i > last THEN g
    ELSE rename_log0_to_log1_upto(RenameGen(g, target_files[i], 0), i + 1, last)

\* the zipper acts on the pending cancellation request: at one of these
\* positions, or in the re-home at the printf() that follows a rename
\* (line 275). In system() the thread ends while the command runs and the
\* clean-up of line 436 is never reached: the archive file stays as it is,
\* absent or unfinished, when the command is killed with the call; a
\* command that outlives the thread goes on, whether or not it has created
\* the archive file yet
zip_thread_cancelled ==
    /\ "zipper" \in cancel_pending
    /\ wpc' = "cancelled"
    /\ cancel_pending' = cancel_pending \ {"zipper"}
    /\ \/ /\ \/ zipper_cancellation_point(wpc)
             \/ /\ wpc = "scan"
                /\ first_needing_compression(needs_compression) = 0
          /\ UNCHANGED <<gen, orphan_tar>>
       \/ /\ wpc = "rehome"
          /\ \E last \in Families :
                /\ \A i \in 1..last : Exists(target_files[i], 0)
                /\ gen' = rename_log0_to_log1_upto(gen, 1, last)
          /\ UNCHANGED orphan_tar
       \/ /\ wpc \in {"tar", "tar_wait"}
          /\ orphan_tar' = TRUE
          /\ UNCHANGED gen
    /\ UNCHANGED <<names, empty, onDisk, nread, ev, findex, ri, ready_to_zip,
                   inotify_events_allow_sema, operations_on_log_files,
                   zip_in_progress, needs_compression, terminal_fname,
                   zipper_thread_sync, local_terminal_fname, old_archive, cfiles,
                   ci, tars, archives, now, handled, archived, historyVars,
                   opc, mpc, wait_for_thread_init>>

\* the tar command that has outlived the cancelled thread creates the
\* archive file, replacing a file of that name, and begins to fill it
orphan_tar_start ==
    /\ orphan_tar
    /\ LET file_idx == get_file_type_index(<<local_terminal_fname, "log">>)
       IN /\ PartialArchive(archives[file_idx]) \notin tars
          /\ tars' = (tars \ TarsNamed(archives[file_idx]))
                        \cup {PartialArchive(archives[file_idx])}
    /\ UNCHANGED <<names, empty, onDisk, nread, observerVars, zipperVars,
                   inotify_events_allow_sema, operations_on_log_files,
                   zip_in_progress, needs_compression, terminal_fname,
                   zipper_thread_sync, gen, archives, now, handled, archived,
                   historyVars, lifeVars>>

\* the tar command that has outlived the cancelled thread finishes the
\* archive and exits; nothing runs the clean-up of line 436 after it
orphan_tar_completes ==
    /\ orphan_tar
    /\ LET file_idx == get_file_type_index(<<local_terminal_fname, "log">>)
           ids == TarContent(local_terminal_fname, cfiles, 1, max_index)
       IN /\ tars' = (tars \ TarsNamed(archives[file_idx]))
                        \cup {FullArchive(archives[file_idx], ids)}
          /\ archived' = archived \o ids
    /\ orphan_tar' = FALSE
    /\ UNCHANGED <<names, empty, onDisk, nread, observerVars, zipperVars,
                   inotify_events_allow_sema, operations_on_log_files,
                   zip_in_progress, needs_compression, terminal_fname,
                   zipper_thread_sync, gen, archives, now, handled,
                   historyVars, mpc, wait_for_thread_init, cancel_pending>>

\* the steps of a tar command left running by a cancelled system() call
OrphanTarStep == orphan_tar_start \/ orphan_tar_completes

CoordinatorStartStep ==
    \/ threads_init_create_rotator
    \/ threads_init_create_zipper
    \/ threads_init_sem_wait

CoordinatorStopStep ==
    \/ stop_join_rotator
    \/ stop_cancel_zipper
    \/ stop_join_zipper

LifeObserverStep ==
    \/ ObserverStep
    \/ log_rotate_init
    \/ log_rotate_init_post
    \/ log_rotate_cancelled

LifeZipperStep == ZipperStep \/ zip_thread_init \/ zip_thread_cancelled

\* the failures the environment may cause
LifeFault ==
    \/ threads_init_create_fails
    \/ log_rotate_init_fails
    \/ log_rotate_read_fails

\* before ipmgr_log_rotator_threads_init creates the threads
LifeInit ==
    /\ InitData
    /\ EmptyDirectory
    /\ opc = "unborn"
    /\ wpc = "unborn"
    /\ mpc = "create_rotator"

LifeNext ==
    \/ ProducerCreate
    \/ LifeObserverStep
    \/ LifeZipperStep
    \/ CoordinatorStartStep
    \/ stop_cancel_rotator
    \/ CoordinatorStopStep
    \/ OrphanTarStep
    \/ LifeFault

\* the program from the call of ipmgr_start_log_rotator_thread to the return
\* of ipmgr_stop_log_rotator_thread, with the failures of the watch
LifeSpec == LifeInit /\ [][LifeNext]_vars

\* The scheduler runs each thread that can take a step; a caller that has
\* entered ipmgr_stop_log_rotator_thread goes on with it. Nothing obliges the
\* caller to stop the system, the producers to create files, or a failure
\* to happen.
FairLifeSpec ==
    /\ LifeSpec
    /\ WF_vars(LifeObserverStep)
    /\ WF_vars(LifeZipperStep)
    /\ WF_vars(CoordinatorStartStep)
    /\ WF_vars(CoordinatorStopStep)
    /\ WF_vars(OrphanTarStep)

\* ------------------------------------------------------------------------
\* Files with other names created in the watched directory

\* the names, other than stamped sentinels, a k-th created file may have:
\* <family>.bak, <family>.bak.1, <family>.bak.<k>.bak, <family>.dummy.bak.1
\* and <family>.<k>.bak2, whose last suffix begins with ".bak"
OtherNames(k) ==
    UNION {{<<target_files[j], "bak">>,
            <<target_files[j], "bak", "1">>,
            <<target_files[j], "bak", ToString(k), "bak">>,
            <<target_files[j], "dummy", "bak", "1">>,
            <<target_files[j], ToString(k), "bak2">>} : j \in Families}

\* the created files that do not have the name of a stamped sentinel
OtherCreated == {k \in 1..Len(names) : names[k] \notin SentinelNames(k)}

\* a file with one of the other names is created (it does not exist yet);
\* inotify queues an event
ProducerCreateOther ==
    /\ Len(names) < MaxNamed
    /\ Len(names) - nread < MaxQueue
    /\ Cardinality(OtherCreated) < MaxOther
    /\ \E n \in OtherNames(Len(names) + 1) :
          /\ \A k \in onDisk : names[k] # n
          /\ names' = Append(names, n)
    /\ onDisk' = onDisk \cup {Len(names) + 1}
    /\ UNCHANGED <<empty, nread, observerVars, zipperVars, inotify_events_allow_sema,
                   operations_on_log_files, zip_in_progress, needs_compression,
                   terminal_fname, zipper_thread_sync, gen, tars, archives, now,
                   handled, archived, lifeVars, historyVars>>

\* a stamped sentinel is created in that directory
ProducerCreateStamped == Len(names) < MaxNamed /\ ProducerCreate

NamesNext ==
    \/ ProducerCreateStamped
    \/ ProducerCreateOther
    \/ DummyObserverStep
    \/ ZipperStep

\* the program in a directory where files of all these names are created
NamesSpec == Init /\ [][NamesNext]_vars

\* ------------------------------------------------------------------------
\* Sentinels without content

\* a sentinel that holds no byte is created (IN_CREATE is raised when a file
\* is made in the directory, before anything is written to it)
ProducerCreateEmpty ==
    /\ Len(names) < MaxEmpty
    /\ Len(names) - nread < MaxQueue
    /\ \E n \in SentinelNames(Len(names) + 1) : names' = Append(names, n)
    /\ onDisk' = onDisk \cup {Len(names) + 1}
    /\ empty' = empty \cup {Len(names) + 1}
    /\ UNCHANGED <<nread, observerVars, zipperVars, inotify_events_allow_sema,
                   operations_on_log_files, zip_in_progress, needs_compression,
                   terminal_fname, zipper_thread_sync, gen, tars, archives, now,
                   handled, archived, lifeVars, historyVars>>

\* a sentinel with content is created in that directory
ProducerCreateFilled == Len(names) < MaxEmpty /\ ProducerCreate

EmptyNext ==
    \/ ProducerCreateFilled
    \/ ProducerCreateEmpty
    \/ ObserverStep
    \/ ZipperStep

\* the program in a directory where sentinels of both kinds are created
EmptySpec == Init /\ [][EmptyNext]_vars

\* ------------------------------------------------------------------------
\* Failing file operations

\* normal case: rename(sentinel, log.0) fails; the error is printed and the
\* function goes on to the spinlock and file_rotate (lines 820-831)
handle_bak_file_rename_fails ==
    /\ opc = "rename"
    /\ opc' = "spin_lock"
    /\ UNCHANGED <<dataVars, wpc, lifeVars>>

\* file_rotate: rename(log.i, log.(i+1)) of the loop fails; the error is
\* printed and the loop goes on with the next index (lines 611-615)
file_rotate_rename_fails ==
    /\ opc = "rotate_rename"
    /\ Exists(base_name, ri)
    /\ IF ri > 0
       THEN /\ ri' = ri - 1
            /\ opc' = "rotate_rename"
       ELSE /\ ri' = ri
            /\ opc' = "rotate_flag"
    /\ UNCHANGED <<names, empty, onDisk, nread, ev, findex, ready_to_zip,
                   zipperVars, inotify_events_allow_sema,
                   operations_on_log_files, zip_in_progress, needs_compression,
                   terminal_fname, zipper_thread_sync, gen, tars, archives, now,
                   handled, archived, lifeVars, historyVars>>

\* compress...: system(cmd) returns non-zero and the function returns before
\* the clean-up loop (lines 424-427): the command could not be run, or tar
\* ended with an error status, having left the archive file unfinished or
\* having written all of it (the status of "file changed as we read it")
compress_tar_fails ==
    /\ wpc \in {"tar", "tar_wait"}
    /\ tar_failed_from' = ChainOf(gen, local_terminal_fname)
    /\ wpc' = "gate_wait"
    /\ \/ UNCHANGED <<tars, archived>>
       \/ /\ wpc = "tar_wait"
          /\ LET file_idx == get_file_type_index(<<local_terminal_fname, "log">>)
                 ids == TarContent(local_terminal_fname, cfiles, 1, max_index)
             IN /\ tars' = (tars \ TarsNamed(archives[file_idx]))
                              \cup {FullArchive(archives[file_idx], ids)}
                /\ archived' = archived \o ids
    /\ UNCHANGED <<names, empty, onDisk, nread, observerVars, local_terminal_fname,
                   old_archive, cfiles, ci, inotify_events_allow_sema,
                   operations_on_log_files, zip_in_progress, needs_compression,
                   terminal_fname, zipper_thread_sync, gen, archives, now,
                   handled, lifeVars, appended, append_path,
                   rotate_from>>

FaultNext == Next \/ handle_bak_file_rename_fails \/ compress_tar_fails

\* the program with a promotion and an archiver that may fail
FaultSpec == Init /\ [][FaultNext]_vars

LoopFaultNext == Next \/ file_rotate_rename_fails

\* the program with renames of the rotation loop that may fail
LoopFaultSpec == Init /\ [][LoopFaultNext]_vars

\* ------------------------------------------------------------------------
\* A directory that already holds generation files when the program starts

\* the content of a generation file log.i that was there before the start
OldContent(i) == <<-(i + 1)>>

\* one family has the generation files of an arbitrary set S of indices
PopulatedDirectory ==
    \E j \in Families : \E S \in SUBSET Gens :
        gen = [b \in Bases |->
                 IF b = target_files[j]
                 THEN [i \in Gens |-> IF i \in S THEN OldContent(i) ELSE NoFile]
                 ELSE NoChain]

RotateInit ==
    /\ InitData
    /\ PopulatedDirectory
    /\ opc = "read"
    /\ wpc = "sem_wait"
    /\ mpc = "running"

\* a sentinel is created in that directory
ProducerCreateRotated == Len(names) < MaxRotated /\ ProducerCreate

RotateNext ==
    \/ ProducerCreateRotated
    \/ ObserverStep
    \/ ZipperStep
    \/ handle_bak_file_rename_fails

\* the program started on such a directory, with a promotion that may fail
RotateSpec == RotateInit /\ [][RotateNext]_vars

\* ------------------------------------------------------------------------
\* Producers that choose the stamp of a sentinel freely

\* stamps of sentinel names; handle_bak_file looks for the word "dummy"
\* anywhere in the name (line 710)
Stamps == {"s1", "s2", "dummy", "mydummy2"}

\* the names <family>.<stamp>.bak
StampedNames ==
    {<<target_files[j], st, "bak">> : j \in Families, st \in Stamps}

\* a sentinel with one of these names is created (no file of that name
\* exists); inotify queues an event
ProducerCreateAnyStamp ==
    /\ Len(names) < MaxStamped
    /\ Len(names) - nread < MaxQueue
    /\ \E n \in StampedNames :
          /\ \A k \in onDisk : names[k] # n
          /\ names' = Append(names, n)
    /\ onDisk' = onDisk \cup {Len(names) + 1}
    /\ UNCHANGED <<empty, nread, observerVars, zipperVars, inotify_events_allow_sema,
                   operations_on_log_files, zip_in_progress, needs_compression,
                   terminal_fname, zipper_thread_sync, gen, tars, archives, now,
                   handled, archived, lifeVars, historyVars>>

StampNext == ProducerCreateAnyStamp \/ DummyObserverStep \/ ZipperStep

\* the program with producers that stamp their sentinels with any of Stamps
StampSpec == Init /\ [][StampNext]_vars

\* ------------------------------------------------------------------------
\* Producers whose stamp may be the name of a target file

\* bases that are not target files and have the name of one inside them
ForeignBases == {"my" \o target_files[j] : j \in Families}

\* the names <base>.s1.bak of these bases
ForeignNames == {<<b, "s1", "bak">> : b \in ForeignBases}

\* the names <family>.<stamp>.bak with an ordinary stamp or with the name of
\* a target file as the stamp: strstr() finds a target file anywhere in the
\* name (lines 918 and 205)
CrossNames ==
    {<<target_files[j], st, "bak">> : j \in Families, st \in {"s1"} \cup Bases}
        \cup ForeignNames

\* a sentinel with one of these names is created (no file of that name
\* exists); inotify queues an event
ProducerCreateCross ==
    /\ Len(names) < MaxCross
    /\ Len(names) - nread < MaxQueue
    /\ \E n \in CrossNames :
          /\ \A k \in onDisk : names[k] # n
          /\ names' = Append(names, n)
    /\ onDisk' = onDisk \cup {Len(names) + 1}
    /\ UNCHANGED <<empty, nread, observerVars, zipperVars, inotify_events_allow_sema,
                   operations_on_log_files, zip_in_progress, needs_compression,
                   terminal_fname, zipper_thread_sync, gen, tars, archives, now,
                   handled, archived, lifeVars, historyVars>>

CrossNext == ProducerCreateCross \/ ObserverStep \/ ZipperStep

\* the program with producers that may use a family name as the stamp
CrossSpec == Init /\ [][CrossNext]_vars

\* ------------------------------------------------------------------------
\* Vocabulary of the properties

\* the observer is inside a handle_bak_file call
InHandler ==
    opc \in {"handle", "append", "rename", "spin_lock", "rotate_delete",
             "rotate_rename", "rotate_flag", "rotate_post", "spin_unlock",
             "dummy_remove"}

\* the observer is inside file_rotate
InFileRotate == opc \in {"rotate_delete", "rotate_rename", "rotate_flag", "rotate_post"}

\* the zipper has taken a trigger and not yet finished that cycle
InCycle ==
    wpc \in {"spin_lock", "set_zip", "compress", "remove_old", "tar",
             "tar_wait", "cleanup", "gate_wait", "rehome", "gate_post",
             "clear_zip", "spin_unlock"}

\* the zipper holds operations_on_log_files for a compression cycle
ZipperHoldsLock == operations_on_log_files = "zipper"

\* no handler call and no compression cycle in progress
Quiescent == ~InHandler /\ ~InCycle

\* quiescent, every event read and no trigger left to consume
Settled ==
    /\ opc = "read"
    /\ wpc = "sem_wait"
    /\ nread = Len(names)
    /\ zipper_thread_sync = 0

\* the generation indices of base b on disk
Indices(b) == {i \in Gens : Exists(b, i)}

\* a contiguous prefix [0..k] or a contiguous range [1..k] (or nothing)
Contiguous(b) ==
    \E lo \in {0, 1} : \E k \in -1..DEFAULT_MAX_FILES : Indices(b) = lo..k

\* number of occurrences of k in the sequence q
Count(q, k) == Cardinality({p \in 1..Len(q) : q[p] = k})

\* the contents of the generations i..0 of base b, oldest generation first
RECURSIVE ChainContent(_, _)
ChainContent(b, i) ==
    IF i < 0 THEN <<>>
    ELSE (IF Exists(b, i) THEN gen[b][i] ELSE <<>>) \o ChainContent(b, i - 1)

\* the family (base) of the k-th created file
FamilyOf(k) == names[k][1]

\* the archives of base b on disk
TarsOf(b) == {a \in tars : a.name[1] = b}

\* ------------------------------------------------------------------------
\* C1  Conservation: at every settled point the content of each handled
\* sentinel appears exactly once in its family's generation files and the
\* archives produced so far.
C1_Conservation ==
    Settled =>
        \A k \in handled :
            Count(ChainContent(FamilyOf(k), DEFAULT_MAX_FILES), k)
                + Count(archived, k) = 1

\* C2  Non-blocking observer: the observer never waits in handle_bak_file
\* for operations_on_log_files while the zipper holds it for a compression
\* cycle.
C2_ObserverNeverWaitsForCompression ==
    ~(opc = "spin_lock" /\ ZipperHoldsLock)

\* C3  No sentinel is missed: under fair scheduling every sentinel that
\* appears in the watch directory eventually no longer exists under its
\* original name.
C3_EverySentinelConsumed ==
    \A k \in 1..MaxSentinels : (k \in onDisk) ~> (k \notin onDisk)

\* C4  Per-family ordering: in every state, reading a family's generations
\* from the highest index down to 0, the sentinel contents appear in the
\* order in which the sentinels were handled (ascending arrival number).
C4_PerFamilyOrdering ==
    \A b \in Bases :
        LET q == ChainContent(b, DEFAULT_MAX_FILES)
        IN \A m, n \in 1..Len(q) : m < n => q[m] < q[n]

C4_Witness ==
    /\ archived # <<>>
    /\ \E b \in Bases :
          /\ Exists(b, 1) /\ Exists(b, 2)
          /\ \E m \in 1..Len(archived) : \A k \in 1..Len(gen[b][2]) :
                archived[m] < gen[b][2][k] /\ FamilyOf(archived[m]) = b

\* C5  P4 mutual exclusion: zip_in_progress is never true while the observer
\* executes file_rotate.
C5_NoRotateWhileCompressing ==
    ~(zip_in_progress /\ InFileRotate)

C5_Witness ==
    InFileRotate /\ wpc = "spin_lock"

\* C6  P1 contiguity at quiescence: with no handler call and no compression
\* cycle in progress, every family's generation indices are a contiguous
\* prefix [0..k] or a contiguous range [1..k].
C6_ContiguousAtQuiescence ==
    Quiescent => \A b \in Bases : Contiguous(b)

C6_Witness ==
    /\ Quiescent
    /\ archived # <<>>
    /\ \E b \in Bases : Indices(b) = {0, 1}

\* C7 as stated: no hole in any reachable state
C7_NoHoleEver ==
    \A b \in Bases : Contiguous(b)

\* C7 in the states in which operations_on_log_files is free, that is
\* outside file_rotate and outside a compression cycle: no hole. It holds
\* when no operation fails and is violated when a promotion fails.
C7_NoHoleWhileLockFree ==
    operations_on_log_files = "free" => \A b \in Bases : Contiguous(b)

C7_Witness ==
    /\ operations_on_log_files = "free"
    /\ opc = "spin_lock"
    /\ Indices(base_name) = {0, 1, 2}

\* C8  Sentinel Handler postcondition: when handle_bak_file has returned for
\* a sentinel, the sentinel no longer exists under its original name.
C8_HandledSentinelGone ==
    \A k \in handled : k \notin onDisk

\* C9  Single archive per family: at every settled point at most one archive
\* exists on disk for each family.
C9_SingleArchive ==
    Settled => \A b \in Bases : Cardinality(TarsOf(b)) <= 1

\* C10  Archive replacement order: a step removes an archive from disk only
\* when the newly named archive of that family already exists.
C10_RemoveOldAfterNew ==
    [][\A a \in tars :
          (\A a2 \in tars' : a2.name # a.name)
             => \E a3 \in tars :
                   /\ a3.name # a.name
                   /\ a3.name = archives[get_file_type_index(<<a.name[1]>>)]]_vars

\* C11 (P6, archive terminality): once the cycle that put a content into an
\* archive has ended and the zipper has released the spinlock, that content
\* is in no generation file of any family.
C11_ArchiveTerminality ==
    ~InCycle =>
        \A p \in 1..Len(archived) : \A b \in Bases :
            Count(ChainContent(b, DEFAULT_MAX_FILES), archived[p]) = 0

\* a cycle that produced an archive has ended and generation files exist
C11_Witness ==
    /\ ~InCycle
    /\ archived # <<>>
    /\ \E b \in Bases : Indices(b) # {}

\* C12 (re-home covers every family): when the re-home step of a cycle has
\* run, while the zipper still holds inotify_events_allow_sema, no configured
\* family has a log.0 left: each one that existed was renamed to log.1.
C12_RehomeCoversEveryFamily ==
    wpc = "gate_post" => \A j \in Families : ~Exists(target_files[j], 0)

\* the sentinels of base b among those that took the append strategy since
\* zip_in_progress was last set, in handling order
AppendedOf(b) ==
    LET OfB(k) == FamilyOf(k) = b IN SelectSeq(appended, OfB)

\* C13 (append during compression): when two sentinels s1, s2 of a family
\* were handled while zip_in_progress was set, then after the re-home step
\* of that cycle the family's log.1 holds the content of s1 followed by the
\* content of s2 and its log.0 is absent, wherever the family stands in
\* target_files.
C13_AppendDuringCompression ==
    wpc = "gate_post" =>
        \A j \in Families :
            Len(AppendedOf(target_files[j])) = 2 =>
                /\ gen[target_files[j]][1] = AppendedOf(target_files[j])
                /\ ~Exists(target_files[j], 0)

\* no compression trigger has been raised so far
NoTriggerRaised ==
    /\ \A j \in Families : ~needs_compression[j]
    /\ zipper_thread_sync = 0
    /\ ~InCycle
    /\ tars = {}
    /\ archived = <<>>

\* one sentinel was created on the empty directory, it was handled and both
\* threads are back at their waiting points
SingleSentinelDone == Settled /\ Len(names) = 1 /\ handled = {1}

\* C14 as stated (single sentinel on an empty chain): after the one sentinel
\* of family f was handled and the system is quiescent, f.log.0 exists, no
\* other generation of f exists and no trigger was raised.
C14_SingleSentinelLog0 ==
    SingleSentinelDone =>
        /\ Indices(FamilyOf(1)) = {0}
        /\ NoTriggerRaised

\* C14 amended: after the one sentinel of family f was handled and the
\* system is quiescent, f.log.1 holds the sentinel's content, no other
\* generation of f exists (log.0 included) and no trigger was raised.
C14_SingleSentinelLog1 ==
    SingleSentinelDone =>
        /\ Indices(FamilyOf(1)) = {1}
        /\ gen[FamilyOf(1)][1] = SentinelContent(1)
        /\ NoTriggerRaised

\* the single sentinel was handled on the rotation path and is gone from disk
C14_Witness == SingleSentinelDone /\ 1 \notin onDisk /\ append_path = {}

\* the sentinels that fill every chain: DEFAULT_MAX_FILES - 1 for each family
FillRound == 1..(DEFAULT_NUM_TARGET_FILES * (DEFAULT_MAX_FILES - 1))

\* the sentinels that arrive on the full chains: one for each family
LastRound ==
    (DEFAULT_NUM_TARGET_FILES * (DEFAULT_MAX_FILES - 1) + 1)
        ..(DEFAULT_NUM_TARGET_FILES * DEFAULT_MAX_FILES)

\* every chain was filled, then one sentinel arrived for each family; all of
\* them were handled and both threads are back at their waiting points
MixedFamiliesDone ==
    /\ Len(names) = DEFAULT_NUM_TARGET_FILES * DEFAULT_MAX_FILES
    /\ \A j \in Families :
          /\ Cardinality({k \in FillRound : FamilyOf(k) = target_files[j]})
                = DEFAULT_MAX_FILES - 1
          /\ Cardinality({k \in LastRound : FamilyOf(k) = target_files[j]}) = 1
    /\ Settled
    /\ handled = 1..Len(names)

\* the sentinel of base b that arrived on its full chain
LastOf(b) == CHOOSE k \in LastRound : FamilyOf(k) = b

\* C15 as stated (mixed families): every chain full, one sentinel for each
\* family, any interleaving with the zipper: at quiescence one archive exists
\* for each family and each chain is contiguous.
C15_OneArchivePerFamily ==
    MixedFamiliesDone =>
        \A j \in Families :
            /\ Cardinality(TarsOf(target_files[j])) = 1
            /\ Contiguous(target_files[j])

\* C15 amended: at quiescence a family has exactly one archive when its
\* sentinel was handled on the rotation path and none when it was handled
\* on the append path (zip_in_progress set by the cycle of another family);
\* each chain is contiguous.
C15_ArchivePerRotatedFamily ==
    MixedFamiliesDone =>
        \A j \in Families :
            /\ Cardinality(TarsOf(target_files[j]))
                  = (IF LastOf(target_files[j]) \in append_path THEN 0 ELSE 1)
            /\ Contiguous(target_files[j])

\* the mixed-families run has ended with one family handled on each path
C15_Witness ==
    /\ MixedFamiliesDone
    /\ \E j \in Families : LastOf(target_files[j]) \in append_path
    /\ \E j \in Families : LastOf(target_files[j]) \notin append_path

\* the mixed-families run has ended with every family on the rotation path
C15_WitnessAllRotated ==
    MixedFamiliesDone /\ append_path = {} /\ Cardinality(tars) = DEFAULT_NUM_TARGET_FILES

\* the observer is between its sem_wait and its sem_post on
\* inotify_events_allow_sema
ObserverHoldsGate == InHandler

\* C20 (deadlock freedom): never does the observer hold
\* inotify_events_allow_sema and wait for operations_on_log_files while the
\* zipper holds operations_on_log_files and waits for
\* inotify_events_allow_sema.
C20_NoLockOrderDeadlock ==
    ~(/\ ObserverHoldsGate
      /\ opc = "spin_lock"
      /\ operations_on_log_files = "zipper"
      /\ wpc = "gate_wait"
      /\ inotify_events_allow_sema = 0)

\* the name is exactly <family>.bak
Stampless(name) ==
    Len(name) = 2 /\ name[2] = "bak" /\ name[1] \in Bases

\* the name contains ".bak.": a component "bak" that is not the last one
ContainsBakDot(name) == \E p \in 2..(Len(name) - 1) : name[p] = "bak"

\* the name ends in ".bak"
EndsInBak(name) == Len(name) >= 2 /\ name[Len(name)] = "bak"

\* the events the observer has read and is no longer handling
Processed == {k \in 1..nread : k # ev}

\* C16 as stated (stampless name rejected): a file named exactly
\* <family>.bak is ignored; once its event has been processed the file is
\* still there under its name.
C16_StamplessIgnored ==
    \A k \in Processed : Stampless(names[k]) => k \in onDisk

\* C16 amended: a file named exactly <family>.bak is handled as a sentinel
\* of the family. On the rotation path it is renamed to <family>.log.0 and
\* the chain is rotated: when file_rotate has run, log.1 holds its content
\* and log.0 is absent; once processed, the file is gone from under its name.
C16_StamplessHandled ==
    /\ \A k \in Processed :
          Stampless(names[k]) /\ k \notin append_path => k \notin onDisk
    /\ (opc = "spin_unlock" /\ Stampless(EvName)) =>
          /\ gen[EvName[1]][1] = SentinelContent(ev)
          /\ ~Exists(EvName[1], 0)

\* a stampless file has been rotated into log.1
C16_Witness == opc = "spin_unlock" /\ Stampless(EvName) /\ ev \notin onDisk

\* C17 as stated (names containing ".bak." are ignored): whatever follows
\* the ".bak.", once the event has been processed the file is still there
\* under its name.
C17_BakDotIgnored ==
    \A k \in Processed : ContainsBakDot(names[k]) => k \in onDisk

\* a name with ".bak." inside whose last suffix is not ".bak" and that does
\* not contain "dummy"
BakDotNotLast(name) ==
    ContainsBakDot(name) /\ ~EndsInBak(name) /\ ~HasToken(name, "dummy")

\* C17 amended: for every event name that contains ".bak.", does not end in
\* ".bak" and does not contain "dummy", the file is neither renamed nor
\* removed, and no step of the observer for that event changes a generation
\* chain, an archive or a trigger.
C17_BakDotNotLastIgnored ==
    /\ [](\A k \in Processed : BakDotNotLast(names[k]) => k \in onDisk)
    /\ [][(ev # 0 /\ BakDotNotLast(EvName) /\ observerVars' # observerVars)
            => UNCHANGED <<onDisk, gen, tars, archives, needs_compression,
                           terminal_fname, zipper_thread_sync>>]_vars

\* the handler has returned for a file named <family>.bak.1
C17_Witness ==
    \E k \in handled : BakDotNotLast(names[k]) /\ k \in onDisk /\ k # ev

\* C18 (watch failure is fatal): when the observer has given up, because
\* it could not establish the watch or because its read failed, the process
\* eventually exits.
C18_WatchFailureExits == (opc = "returned") ~> (mpc = "exited")

\* C19 (orderly shutdown): the zipper is cancelled only after the observer
\* has ended, and when ipmgr_stop_log_rotator_thread has finished no trigger
\* is pending and the zipper was not cancelled inside a compression cycle
\* (it does not hold the spinlock and zip_in_progress is not set).
C19_OrderlyShutdown ==
    /\ ("zipper" \in cancel_pending \/ wpc = "cancelled") => Terminated(opc)
    /\ (mpc = "stopped" /\ opc = "cancelled") =>
          /\ \A j \in Families : ~needs_compression[j]
          /\ zipper_thread_sync = 0
          /\ operations_on_log_files # "zipper"
          /\ ~zip_in_progress

\* C21 (path selection and append frame): a handler call takes the append
\* strategy exactly when the one read of zip_in_progress gave true and the
\* rotation path when it gave false; the append strategy ends the call
\* without entering file_rotate and changes nothing but the sentinel and the
\* log.0 of its family: generations 1..N of every family, the archives, the
\* needs_compression flags and zipper_thread_sync stay as they are.
C21_PathSelectionAppendFrame ==
    [][/\ (opc = "handle" /\ opc' \in {"append", "rename"})
            => ((opc' = "append") <=> zip_in_progress)
       /\ (opc = "append" /\ opc' # opc)
            => /\ opc' = "sem_post"
               /\ \A b \in Bases : \A i \in 1..DEFAULT_MAX_FILES :
                     gen'[b][i] = gen[b][i]
               /\ \A b \in Bases \ {base_name} : gen'[b][0] = gen[b][0]
               /\ onDisk' \in {onDisk, onDisk \ {ev}}
               /\ UNCHANGED <<tars, archives, needs_compression,
                              terminal_fname, zipper_thread_sync>>]_vars

\* a call has taken the append strategy and its family has a log.0
C21_Witness ==
    opc = "sem_post" /\ ev \in append_path /\ Exists(base_name, 0)

\* the generation indices the chain of base_name had when file_rotate was
\* entered
RotatedFrom == {i \in Gens : rotate_from[i] # NoFile}

\* file_rotate has returned and the observer still holds the spinlock
RotateDone == opc = "spin_unlock" /\ ~IsDummy

C22_WitnessFull == RotateDone /\ RotatedFrom = Gens

\* C23 (trigger condition): a file_rotate call for family f sets
\* needs_compression[f], records f's terminal file name and posts
\* zipper_thread_sync exactly once if and only if it renamed f.log.(N-1) to
\* f.log.N; otherwise it changes no trigger state and not the semaphore;
\* it never changes the trigger state of another family.
C23_TriggerCondition ==
    [][/\ (opc \in {"rotate_delete", "rotate_rename"}
              /\ observerVars' # observerVars)
            => UNCHANGED <<needs_compression, terminal_fname,
                           zipper_thread_sync>>
       /\ (opc = "rotate_flag" /\ opc' # opc)
            => LET j == get_file_type_index(<<base_name>>)
               IN IF (DEFAULT_MAX_FILES - 1) \in RotatedFrom
                  THEN /\ needs_compression'
                            = [needs_compression EXCEPT ![j] = TRUE]
                       /\ terminal_fname'
                            = [terminal_fname EXCEPT ![j] = base_name]
                       /\ zipper_thread_sync' = zipper_thread_sync
                       /\ opc' = "rotate_post"
                  ELSE /\ UNCHANGED <<needs_compression, terminal_fname,
                                      zipper_thread_sync>>
                       /\ opc' = "spin_unlock"
       /\ (opc = "rotate_post" /\ opc' # opc)
            => /\ zipper_thread_sync' = zipper_thread_sync + 1
               /\ UNCHANGED <<needs_compression, terminal_fname>>
               /\ opc' = "spin_unlock"]_vars

\* file_rotate has set the flag of its family while the flag of another
\* family is set, and is about to post
C23_Witness ==
    /\ opc = "rotate_post"
    /\ (DEFAULT_MAX_FILES - 1) \in RotatedFrom
    /\ \E j \in Families :
          target_files[j] # base_name /\ needs_compression[j]

\* file_rotate has run without a rename into log.N
C23_WitnessNoTrigger ==
    RotateDone /\ (DEFAULT_MAX_FILES - 1) \notin RotatedFrom /\ RotatedFrom # {}


\* the content c of a generation file has been put into an archive
InArchive(c) == \A p \in 1..Len(c) : Count(archived, c[p]) > 0

\* ------------------------------------------------------------------------
\* C24  Step 1 only cleans up after a failed cycle: when file_rotate reaches
\* its removal of <base>.log.N, a log.N that is on disk holds only content
\* that has already been put into an archive, so the removal loses nothing.
C24_TerminalRemovedOnlyArchived ==
    (opc = "rotate_delete" /\ Exists(base_name, DEFAULT_MAX_FILES))
        => InArchive(gen[base_name][DEFAULT_MAX_FILES])

\* C24, first wording: file_rotate never finds <base>.log.N on disk at its
\* removal step.
C24_TerminalNeverPresent ==
    opc = "rotate_delete" => ~Exists(base_name, DEFAULT_MAX_FILES)


\* ------------------------------------------------------------------------
\* C25  Rotation renames never overwrite: whenever file_rotate is about to
\* rename <base>.log.i to <base>.log.(i+1), <base>.log.(i+1) is not on disk.
C25_RotationNeverOverwrites ==
    (opc = "rotate_rename" /\ Exists(base_name, ri))
        => ~Exists(base_name, ri + 1)

\* a rename of the loop whose destination index was occupied when the
\* rotation began
C25_Witness ==
    /\ opc = "rotate_rename"
    /\ ~IsDummy
    /\ Exists(base_name, ri)
    /\ rotate_from[ri + 1] # NoFile


\* the file types whose log.0 the loop of rename_all_log0_to_log1_log_file
\* renames: those before the first file type that has no log.0
RehomeTouched ==
    {i \in Families : \A h \in 1..i : Exists(target_files[h], 0)}

\* ------------------------------------------------------------------------
\* C26  Re-home never overwrites: when the zipper is about to rename the
\* log.0 files to log.1, no file type whose log.0 it renames has a log.1 on
\* disk.
C26_RehomeNeverOverwrites ==
    wpc = "rehome" =>
        \A i \in RehomeTouched : ~Exists(target_files[i], 1)


\* every sentinel whose content is in d is also in c
Contains(c, d) == \A p \in 1..Len(d) : Count(c, d[p]) > 0

\* ------------------------------------------------------------------------
\* C27  Residual log.0 is absorbed: when a sentinel is handled on the
\* rotation path while its family has a log.0 on disk, the step that
\* promotes the sentinel keeps the content of that log.0 in some generation
\* of the family.
C27_ResidualLog0Kept ==
    [][(opc = "rename" /\ Exists(base_name, 0))
          => \E i \in Gens :
                Contains(gen'[base_name][i], gen[base_name][0])]_vars


\* ------------------------------------------------------------------------
\* C28  Failed promotion does not rotate: the observer takes
\* operations_on_log_files and runs file_rotate for a sentinel only after
\* the sentinel was renamed to log.0; while the sentinel is still on disk
\* the handler is not at the lock or inside file_rotate.
C28_FailedPromotionDoesNotRotate ==
    ((opc = "spin_lock" \/ InFileRotate) /\ ~IsDummy) => ev \notin onDisk


\* the file types whose needs_compression flag is set
Pending == {j \in Families : needs_compression[j]}

\* the lowest-index file type whose flag is set
LowestPending == CHOOSE j \in Pending : \A h \in Pending : j <= h

\* ------------------------------------------------------------------------
\* C29  Trigger pickup: a wake-up of the zipper takes one unit from
\* zipper_thread_sync and changes no flag; the scan that follows clears the
\* flag of the lowest-index file type whose flag is set, leaves every other
\* flag unchanged and goes on to the cycle; when no flag is set the scan
\* goes back to the wait, and the zipper has then changed no flag, not set
\* zip_in_progress, not taken operations_on_log_files and changed no file.
C29_TriggerPickup ==
    [][/\ (wpc = "sem_wait" /\ wpc' # "sem_wait")
            => /\ wpc' = "scan"
               /\ zipper_thread_sync' = zipper_thread_sync - 1
               /\ UNCHANGED needs_compression
       /\ (wpc = "scan" /\ wpc' # "scan")
            => /\ UNCHANGED <<zipper_thread_sync, zip_in_progress,
                              operations_on_log_files, gen, tars, onDisk>>
               /\ IF Pending # {}
                  THEN /\ needs_compression' =
                             [needs_compression EXCEPT ![LowestPending] = FALSE]
                       /\ local_terminal_fname' = terminal_fname[LowestPending]
                       /\ wpc' = "spin_lock"
                  ELSE /\ UNCHANGED needs_compression
                       /\ wpc' = "sem_wait"]_vars

\* the scan finds the flags of two file types set
C29_Witness ==
    /\ wpc = "scan"
    /\ Cardinality(Pending) >= 2

\* the scan finds no flag set: the wake-up was for a trigger that an
\* earlier scan already took
C29_WitnessCoalesced ==
    /\ wpc = "scan"
    /\ Pending = {}


\* ------------------------------------------------------------------------
\* C30  No lost wake-up: whenever the zipper is blocked in
\* sem_wait(&zipper_thread_sync) and file_rotate is not between setting a
\* flag and its sem_post, the count of zipper_thread_sync is at least the
\* number of file types whose needs_compression is set.
C30_NoLostWakeup ==
    (wpc = "sem_wait" /\ opc # "rotate_post")
        => zipper_thread_sync >= Cardinality(Pending)

\* the zipper waits while the flags of two file types are set and posted
C30_Witness ==
    /\ wpc = "sem_wait"
    /\ opc # "rotate_post"
    /\ Cardinality(Pending) >= 2


\* the generations 1..N of base b on disk
Archivable(b) == {i \in 1..DEFAULT_MAX_FILES : Exists(b, i)}

\* the sentinels whose content is in the sequence c
ContentOf(c) == {c[p] : p \in 1..Len(c)}

\* ------------------------------------------------------------------------
\* C31  Archive contents: the archive that the tar command of a cycle for
\* base b writes holds the contents of exactly the files b.log.1..b.log.N
\* that are on disk when tar runs, in ascending order, nothing of b.log.0 and
\* nothing of another base; when none of b.log.1..b.log.N is on disk the
\* cycle goes straight to the re-home, writes no archive and removes no file.
C31_ArchiveContents ==
    [][/\ (wpc = "tar_wait" /\ wpc' # "tar_wait")
            => LET b == local_terminal_fname
                   file_idx == get_file_type_index(<<b, "log">>)
               IN \E a \in tars' :
                     /\ a.name = archives[file_idx]
                     /\ a.complete
                     /\ a.ids = TarContent(b, Archivable(b), 1, DEFAULT_MAX_FILES)
                     /\ Archivable(b) # {}
                     /\ ContentOf(a.ids) \cap ContentOf(gen[b][0]) = {}
                     /\ \A c \in Bases \ {b} : \A i \in Gens :
                           ContentOf(a.ids) \cap ContentOf(gen[c][i]) = {}
       /\ (wpc = "compress" /\ wpc' # "compress"
             /\ Archivable(local_terminal_fname) = {})
            => /\ wpc' = "gate_wait"
               /\ UNCHANGED <<tars, gen, onDisk>>]_vars

\* tar is running for a base that has a log.0 and whose other base has
\* files too
C31_Witness ==
    /\ wpc = "tar_wait"
    /\ Exists(local_terminal_fname, 0)
    /\ \E c \in Bases \ {local_terminal_fname} : Indices(c) # {}

\* a cycle that found nothing to archive
C31_WitnessNothing ==
    /\ wpc = "gate_wait"
    /\ cfiles = {}
    /\ Archivable(local_terminal_fname) = {}


\* the zipper has done the re-home of a cycle whose tar command failed
FailedCycleEnd ==
    /\ wpc \in {"gate_post", "clear_zip", "spin_unlock"}
    /\ tar_failed_from # NoChain

\* ------------------------------------------------------------------------
\* C32  Archiver failure keeps originals: at the end of a cycle whose tar
\* command failed, after the re-home, every file b.log.1..b.log.N of the
\* compressed base that was on disk when tar ran is still on disk with the
\* same content.
C32_FailedArchiveKeepsOriginals ==
    FailedCycleEnd =>
        \A i \in 1..DEFAULT_MAX_FILES :
            tar_failed_from[i] # NoFile
                => gen[local_terminal_fname][i] = tar_failed_from[i]

\* C32, second part: from the failure of tar to the end of that cycle no
\* step changes the needs_compression flag of any file type.
C32_FailedArchiveNoRetrigger ==
    [][(tar_failed_from # NoChain \/ tar_failed_from' # NoChain)
          => UNCHANGED needs_compression]_vars


\* the zipper has cleared a needs_compression flag in its scan and has not
\* yet finished the re-home of that cycle
TriggerTaken ==
    wpc \in {"spin_lock", "set_zip", "compress", "remove_old", "tar",
             "tar_wait", "cleanup", "gate_wait", "rehome"}

\* ------------------------------------------------------------------------
\* C33  zip_in_progress window: in every state from the scan that clears a
\* needs_compression flag until the re-home of that cycle is done,
\* zip_in_progress is true.
C33_CompressionRunningWindow == TriggerTaken => zip_in_progress

\* C33, consequence: a handle_bak_file call that reads zip_in_progress in
\* that window takes the append strategy.
C33_HandlerInWindowAppends ==
    [][(opc = "handle" /\ opc' \in {"append", "rename"} /\ TriggerTaken)
          => opc' = "append"]_vars


\* the observer is between its sem_wait and its sem_post of
\* inotify_events_allow_sema (lines 921-923)
ObserverInGate ==
    opc \in {"handle", "append", "rename", "spin_lock", "rotate_delete",
             "rotate_rename", "rotate_flag", "rotate_post", "spin_unlock",
             "dummy_remove", "sem_post"}

\* the zipper is between its sem_wait and its sem_post of
\* inotify_events_allow_sema (lines 536-538)
ZipperInGate == wpc \in {"rehome", "gate_post"}

\* ------------------------------------------------------------------------
\* C34  Gate exclusion: the zipper is never at its re-home step while the
\* observer is inside a handle_bak_file call; inotify_events_allow_sema is
\* always 0 or 1, it is 0 exactly when one of the two threads is between its
\* sem_wait and its sem_post, and never both threads are.
C34_GateExclusion ==
    /\ ~(wpc = "rehome" /\ ObserverInGate)
    /\ inotify_events_allow_sema \in {0, 1}
    /\ ~(ObserverInGate /\ ZipperInGate)
    /\ inotify_events_allow_sema = 0 <=> (ObserverInGate \/ ZipperInGate)

\* the zipper is at its re-home step while the observer has read an event
\* and waits for the gate
C34_Witness ==
    /\ wpc = "rehome"
    /\ opc = "sem_wait"
    /\ ev \in onDisk


\* the handler read zip_in_progress as true and has not yet returned
OnAppendPath == opc = "append"

\* ------------------------------------------------------------------------
\* C35  The append strategy stays inside the compression window: while a
\* handle_bak_file call that read zip_in_progress as true has not returned,
\* zip_in_progress is true, the zipper holds operations_on_log_files and
\* the zipper has not started the re-home of that cycle.
C35_AppendInsideWindow ==
    OnAppendPath =>
        /\ zip_in_progress
        /\ operations_on_log_files = "zipper"
        /\ wpc \in {"compress", "remove_old", "tar", "tar_wait", "cleanup",
                   "gate_wait"}


\* the zipper has taken a trigger for base b and not yet finished that cycle
CycleFor(b) == InCycle /\ local_terminal_fname = b

\* ------------------------------------------------------------------------
\* C36, first sentence as amended: whenever b.log.N is on disk, the
\* needs_compression flag of b is set, or file_rotate is about to set it,
\* or the zipper has taken a trigger for b and not finished that cycle.
C36_TerminalHasOwner ==
    \A j \in Families :
        Exists(target_files[j], DEFAULT_MAX_FILES)
            => \/ needs_compression[j]
               \/ CycleFor(target_files[j])
               \/ (InFileRotate /\ base_name = target_files[j])

\* C36, second sentence as amended: at every quiescent point with every
\* event handled and every trigger consumed, no base has a log.N on disk.
C36_NoTerminalWhenSettled ==
    Settled => \A b \in Bases : ~Exists(b, DEFAULT_MAX_FILES)

\* C36  Generation N is transient, as amended: b.log.N is on disk only
\* while the flag of b is set, file_rotate is about to set it or the zipper
\* is in a cycle for b, and at no settled point.
C36_TerminalTransient ==
    C36_TerminalHasOwner /\ C36_NoTerminalWhenSettled

\* C36, first sentence as worded, without the steps of file_rotate between
\* its rename into log.N and its store to needs_compression: whenever
\* b.log.N is on disk the flag of b is set or the zipper is in a cycle for b.
C36_TerminalOwnedStrict ==
    \A j \in Families :
        Exists(target_files[j], DEFAULT_MAX_FILES)
            => \/ needs_compression[j]
               \/ CycleFor(target_files[j])

\* C36, second sentence as worded: at every quiescent point, with no
\* handler call and no compression cycle in progress, no base has a log.N
\* on disk.
C36_NoTerminalAtQuiescence ==
    Quiescent => \A b \in Bases : ~Exists(b, DEFAULT_MAX_FILES)

\* C36 as worded: both sentences
C36_TerminalTransientStrict ==
    C36_TerminalOwnedStrict /\ C36_NoTerminalAtQuiescence

\* log.N of a base is on disk, its flag is cleared and the zipper is
\* archiving it
C36_Witness ==
    \E j \in Families :
        /\ Exists(target_files[j], DEFAULT_MAX_FILES)
        /\ ~needs_compression[j]
        /\ CycleFor(target_files[j])
        /\ wpc = "tar"

\* log.N of a base is on disk and file_rotate has not yet set the flag
C36_WitnessInRotate ==
    /\ opc = "rotate_flag"
    /\ Exists(base_name, DEFAULT_MAX_FILES)
    /\ ~needs_compression[get_file_type_index(<<base_name>>)]
    /\ ~InCycle


\* the handler call in progress removes its sentinel from the directory
SentinelConsumed ==
    /\ ObserverInGate
    /\ ev \in onDisk
    /\ ev \notin onDisk'

\* ------------------------------------------------------------------------
\* C37 for stamps without the word dummy: whatever the
\* stamp of <family>.<stamp>.bak, the handler chooses its strategy by
\* zip_in_progress alone, works on the chain of <family> alone, and removes
\* the sentinel only by putting its content into <family>.log.0.
C37_StampIndependence ==
    [][/\ (opc = "handle" /\ opc' # "handle" /\ ev \in onDisk /\ ~IsDummy)
            => opc' = IF zip_in_progress THEN "append" ELSE "rename"
       /\ (SentinelConsumed /\ ~IsDummy)
            => /\ ev \in ContentOf(gen'[EvName[1]][0])
               /\ \A b \in Bases \ {EvName[1]} : gen'[b] = gen[b]]_vars

\* C37  Stamp independence, its last clause, for every stamp: no stamp
\* makes the handler discard the content of the sentinel; the handler
\* removes a sentinel only by putting its content into <family>.log.0.
C37_NoStampDiscards ==
    [][SentinelConsumed => ev \in ContentOf(gen'[EvName[1]][0])]_vars

\* a sentinel is being rotated after a sentinel of the same family with
\* another stamp was handled
C37_Witness ==
    /\ opc = "spin_lock"
    /\ ~IsDummy
    /\ \E k \in handled :
          /\ names[k][1] = EvName[1]
          /\ names[k][2] # EvName[2]
          /\ ~HasToken(names[k], "dummy")


\* a step of the observer inside a handle_bak_file call; the exit of the
\* process (lines 969 and 987) is a step of the thread that starts the system
ObserverActs ==
    /\ ObserverInGate
    /\ <<opc, ri>>' # <<opc, ri>>
    /\ opc' # "exited"

\* ------------------------------------------------------------------------
\* C38  Family consistency: during the handling of an event that the
\* observer matched to target file findex, the observer changes the
\* generation files of that target file only, makes no generation file of
\* a base that is not a target file, and sets the needs_compression flag of
\* that target file only.
C38_FamilyConsistency ==
    [][ObserverActs
          => /\ \A b \in Bases \ {target_files[findex]} : gen'[b] = gen[b]
             /\ \A b \in DOMAIN gen' : \A i \in Gens :
                   gen'[b][i] # NoFile => b \in Bases
             /\ \A j \in Families \ {findex} :
                   needs_compression'[j] = needs_compression[j]]_vars


\* ------------------------------------------------------------------------
\* C39  Append destination mode: the append strategy's destination is not
\* opened with O_APPEND, and a handler call that takes the append strategy
\* while <base>.log.0 is on disk appends the whole content of the sentinel
\* to <base>.log.0 and removes the sentinel.
C39_AppendDestinationMode ==
    [][(opc = "append" /\ opc' # "append" /\ Exists(base_name, 0))
          => /\ ~dest_open_o_append
             /\ gen'[base_name][0] = gen[base_name][0] \o SentinelContent(ev)
             /\ ev \notin onDisk']_vars

====
